---- MODULE Spec2Model ----
(***************************************************************************)
(* A model of file_manager.py: the curses event loop of main(), its        *)
(* refresh_contents() closure, get_directory_contents(), the two places    *)
(* that hand the terminal to a child process (python3, less) and the       *)
(* delete / rename / copy handlers, over a small filesystem.               *)
(*                                                                         *)
(* Text is a sequence of chunks (strings that are never split): a          *)
(* substring test of the source becomes a test for a chunk, concatenation  *)
(* becomes \o.  A path is a sequence of names, the root being << >>.       *)
(***************************************************************************)
EXTENDS Integers, Sequences, FiniteSets, TLC

\* ---------------------------------------------------------------- bounds

\* Largest terminal height the window is resized to.
MaxRows == 6

\* Number of changes made to the filesystem during one run: by the user's
\* deletions, moves and copies, and by other processes (the child included).
MaxChanges == 1

\* ------------------------------------------------------- program constants

\* list_box_height < 3 is "Terminal too small!".
TooSmallBoxHeight == 3

\* list_box_width < 20 is "Terminal too small!".
MinWidth == 20

\* Rows of the screen that are not list rows: header, two borders, status.
BorderRows == 4

\* item_details["size"] of a directory.
DirSize == -1

\* item_details["size"] of an item whose lstat failed (None in the source).
NoneSize == -2

Rows == (TooSmallBoxHeight + 1)..MaxRows

Cols == {MinWidth - 1, MinWidth}

\* ------------------------------------------------------------------ text

Max(a, b) == IF a >= b THEN a ELSE b

Min(a, b) == IF a <= b THEN a ELSE b

\* needle in text
Contains(text, needle) == \E i \in DOMAIN text : text[i] = needle

\* text.endswith(suffix)
EndsWith(text, suffix) == Len(text) > 0 /\ text[Len(text)] = suffix

\* str.lower() of one chunk
LowerChunk(c) ==
  CASE c = "Error" -> "error"
    [] c = "Y" -> "y"
    [] c = "Refreshed." -> "refreshed."
    [] c = " refreshing: Permission " -> " refreshing: permission "
    [] c = "Permission " -> "permission "
    [] c = "Directory is empty." -> "directory is empty."
    [] OTHER -> c

\* str.lower()
Lower(text) == [i \in DOMAIN text |-> LowerChunk(text[i])]

\* The code point of a chunk's first character; chunks that differ differ in
\* their first character, so comparing chunk by chunk compares the strings.
Ord(c) ==
  CASE c = " " -> 32
    [] c = ".py" -> 46
    [] c = "Error" -> 69
    [] c = "[?]" -> 91
    [] c = "a" -> 97
    [] c = "d" -> 100
    [] c = "error" -> 101
    [] OTHER -> 127

\* s < t, as Python compares str
RECURSIVE StrLess(_, _)
StrLess(s, t) ==
  IF t = << >> THEN FALSE
  ELSE IF s = << >> THEN TRUE
  ELSE IF Ord(Head(s)) # Ord(Head(t)) THEN Ord(Head(s)) < Ord(Head(t))
  ELSE StrLess(Tail(s), Tail(t))

\* ----------------------------------------------------------------- names

NameD == <<"d">>

NamePy == <<"a", ".py">>

NameErr == <<"Error">>

\* A name that itself ends with the text of the marker: "d [?]".
NameMarked == <<"d", " ", "[?]">>

Names == {NameD, NamePy, NameErr, NameMarked}

\* The order os.listdir returns names in: arbitrary, and not sorted.
ListdirOrder == <<NameErr, NameMarked, NameD, NamePy>>

Root == << >>

\* Every path a node of the filesystem can live at.
PathU == {<<n>> : n \in Names} \cup {<<m, n>> : m, n \in Names}

\* os.path.join(path, name)
Join(path, name) == Append(path, name)

\* os.path.basename(path)
Basename(path) == IF path = Root THEN << >> ELSE path[Len(path)]

\* os.path.normpath(os.path.join(path, os.pardir))
Parent(path) == IF path = Root THEN Root ELSE SubSeq(path, 1, Len(path) - 1)

\* The text of a path, "/" between and before the names.
RECURSIVE PathStr(_)
PathStr(path) ==
  IF path = Root THEN <<"/">>
  ELSE IF Len(path) = 1 THEN <<"/">> \o path[1]
  ELSE PathStr(Parent(path)) \o <<"/">> \o Basename(path)

\* ------------------------------------------------------------ filesystem

\* A node is a string: nothing there, a directory, or the content of a file.
NoNode == "none"

DirNode == "dir"

FileNode(content) == content

\* st_size of a file with the given content.
SizeOf(content) ==
  CASE content = "c1" -> 1
    [] content = "c2" -> 2
    [] content = "c3" -> 3
    [] OTHER -> 0

\* What the kernel finds at a path.
KindOf(f, p) ==
  IF p = Root THEN "dir"
  ELSE IF p \notin PathU \/ f.nodes[p] = NoNode THEN "none"
  ELSE IF f.nodes[p] = DirNode THEN "dir"
  ELSE "file"

\* The errno of a system call that resolves p and expects to find something.
ResolveErr(f, p) ==
  IF p \in f.nostat THEN "EIO"
  ELSE IF KindOf(f, p) # "none" THEN "ok"
  ELSE IF KindOf(f, Parent(p)) = "file" THEN "ENOTDIR"
  ELSE "ENOENT"

\* os.listdir(p): [err, names]
Listdir(f, p) ==
  LET e == ResolveErr(f, p) IN
  IF e # "ok" THEN [err |-> e, names |-> << >>]
  ELSE IF KindOf(f, p) = "file" THEN [err |-> "ENOTDIR", names |-> << >>]
  ELSE IF p \in f.noread THEN [err |-> "EACCES", names |-> << >>]
  ELSE [err |-> "ok",
        names |-> SelectSeq(ListdirOrder,
                            LAMBDA n : KindOf(f, Join(p, n)) # "none")]

\* os.lstat(p): [err, is_dir, size]
Lstat(f, p) ==
  LET e == ResolveErr(f, p) IN
  IF e # "ok" THEN [err |-> e, is_dir |-> FALSE, size |-> 0]
  ELSE [err |-> "ok", is_dir |-> KindOf(f, p) = "dir",
        size |-> SizeOf(f.nodes[p])]

\* os.path.isdir(p)
IsDir(f, p) == ResolveErr(f, p) = "ok" /\ KindOf(f, p) = "dir"

\* os.path.exists(p)
Exists(f, p) == ResolveErr(f, p) = "ok"

\* The filesystem the program starts in: the directory /d with the files
\* /d/Error and /d/a.py, the empty directory /Error and the file /a.py.
InitFs ==
  [nodes |-> [p \in PathU |->
                IF p = <<NameD>> THEN DirNode
                ELSE IF p = <<NameErr>> THEN DirNode
                ELSE IF p = <<NamePy>> THEN FileNode("c1")
                ELSE IF p = <<NameD, NameErr>> THEN FileNode("c3")
                ELSE IF p = <<NameD, NamePy>> THEN FileNode("c2")
                ELSE NoNode],
   noread |-> {},
   nostat |-> {}]

\* ------------------------------------------------- get_directory_contents

\* One record of the listing: lstat decides is_dir and size; a failed lstat
\* leaves the defaults and marks the name.
ItemRecord(item_name, full_path, st) ==
  IF st.err = "ok"
  THEN [name |-> item_name, is_dir |-> st.is_dir,
        size |-> IF st.is_dir THEN DirSize ELSE st.size,
        path |-> full_path]
  ELSE [name |-> item_name \o <<" ", "[?]">>, is_dir |-> FALSE,
        size |-> NoneSize, path |-> full_path]

\* The body of the loop over os.listdir(path).
ItemDetails(f, path, item_name) ==
  ItemRecord(item_name, Join(path, item_name),
             Lstat(f, Join(path, item_name)))

\* A variant of KeyLess that compares the names as they are; C15 tells the
\* two apart.
KeyLessCaseSensitive(a, b) ==
  \/ a.is_dir /\ ~b.is_dir
  \/ a.is_dir = b.is_dir /\ StrLess(a.name, b.name)

\* key(a) < key(b) for key = (not is_dir, name.lower())
KeyLess(a, b) ==
  \/ a.is_dir /\ ~b.is_dir
  \/ a.is_dir = b.is_dir /\ StrLess(Lower(a.name), Lower(b.name))

\* Where items[i] stands after items.sort(key=...): behind the items with a
\* smaller key and, the sort being stable, behind those with an equal key
\* that stood before it.
SortedPlace(items, i) ==
  1 + Cardinality({j \in DOMAIN items :
                     \/ KeyLess(items[j], items[i])
                     \/ ~KeyLess(items[i], items[j]) /\ j < i})

\* items.sort(key=...)
SortItems(items) ==
  [k \in DOMAIN items |->
     items[CHOOSE i \in DOMAIN items : SortedPlace(items, i) = k]]

\* get_directory_contents(path): tag "list" with the sorted items, tag
\* "denied" for the None of a PermissionError, tag "raise" for an OSError
\* that neither except clause of the function catches.
ListingOf(f, path, l) ==
  IF l.err = "EACCES" THEN [tag |-> "denied", items |-> << >>]
  ELSE IF l.err = "ENOENT" THEN [tag |-> "list", items |-> << >>]
  ELSE IF l.err # "ok" THEN [tag |-> "raise", items |-> << >>]
  ELSE [tag |-> "list",
        items |-> SortItems([i \in DOMAIN l.names |->
                               ItemDetails(f, path, l.names[i])])]

GetDirectoryContents(f, path) == ListingOf(f, path, Listdir(f, path))

\* --------------------------------------------------------- status texts

MsgRefreshed == <<"Refreshed.">>

MsgErrorRefreshing(path) ==
  <<"Error", " refreshing: Permission ", "denied", ": ">> \o PathStr(path)

MsgEmpty == <<"Directory is empty.">>

\* ------------------------------------------------------ refresh_contents

\* prev_status of refresh_contents
PrevStatus(status) ==
  IF ~Contains(status, "Refreshed.") THEN status ELSE << >>

\* A variant of RefreshStatus that puts "Refreshed." behind the status it
\* keeps; C9 tells the two apart.
RefreshStatusAppended(status, listing, path) ==
  IF listing.tag = "denied" THEN MsgErrorRefreshing(path)
  ELSE PrevStatus(status) \o MsgRefreshed

\* A variant of RefreshStatus without the 'or "Refreshed."'; C21 tells the
\* two apart.
RefreshStatusKept(status, listing, path) ==
  IF listing.tag = "denied" THEN MsgErrorRefreshing(path)
  ELSE PrevStatus(status)

\* status_message after the listing came back
RefreshStatus(status, listing, path) ==
  IF listing.tag = "denied" THEN MsgErrorRefreshing(path)
  ELSE IF PrevStatus(status) # << >> THEN PrevStatus(status)
  ELSE MsgRefreshed

\* The index of the first item named select_name, or -1.
FindName(contents, select_name) ==
  IF \E i \in DOMAIN contents : contents[i].name = select_name
  THEN (CHOOSE i \in DOMAIN contents :
          /\ contents[i].name = select_name
          /\ \A j \in 1..(i - 1) : contents[j].name # select_name) - 1
  ELSE -1

\* scroll_offset of refresh_contents once the index is selected.
RefreshScroll(sel, scroll, list_height) ==
  IF list_height > 0
  THEN IF sel < scroll THEN sel
       ELSE IF sel >= scroll + list_height THEN sel - list_height + 1
       ELSE scroll
  ELSE scroll

\* refresh_contents(path, select_name) with the terminal max_y rows high, on
\* the navigation state nav; select_name << >> is None.  raised: the listing
\* raised and nothing was assigned.
\* A variant of RefreshFound that never looks for select_name; C8 tells the
\* two apart.
RefreshFoundNone(cache, select_name) == -1

\* found: the index of select_name in the new listing, -1 without one.
RefreshFound(cache, select_name) ==
  IF select_name # << >> /\ cache # << >>
  THEN FindName(cache, select_name) ELSE -1

\* A variant of RefreshAssign that keeps contents_cache when the listing was
\* denied; C24 tells the two apart.
RefreshAssignKeepsDenied(nav, listing, found, path, max_y) ==
  IF listing.tag = "raise" THEN [raised |-> TRUE, nav |-> nav]
  ELSE [raised |-> FALSE,
        nav |-> [contents_cache |-> IF listing.tag = "denied"
                                    THEN nav.contents_cache
                                    ELSE listing.items,
                 selected_index |-> IF found >= 0 THEN found ELSE 0,
                 scroll_offset |->
                   IF found >= 0
                   THEN RefreshScroll(found, 0, max_y - BorderRows) ELSE 0,
                 status_message |->
                   RefreshStatus(nav.status_message, listing, path)]]

\* The assignments of refresh_contents, the listing and the index found for
\* select_name (-1: none) being known.
RefreshAssign(nav, listing, found, path, max_y) ==
  IF listing.tag = "raise" THEN [raised |-> TRUE, nav |-> nav]
  ELSE [raised |-> FALSE,
        nav |-> [contents_cache |-> listing.items,
                 selected_index |-> IF found >= 0 THEN found ELSE 0,
                 scroll_offset |->
                   IF found >= 0
                   THEN RefreshScroll(found, 0, max_y - BorderRows) ELSE 0,
                 status_message |->
                   RefreshStatus(nav.status_message, listing, path)]]

\* refresh_contents once get_directory_contents returned listing.
RefreshWith(nav, listing, path, select_name, max_y) ==
  RefreshAssign(nav, listing, RefreshFound(listing.items, select_name), path,
                max_y)

RefreshContents(nav, f, path, select_name, max_y) ==
  RefreshWith(nav, GetDirectoryContents(f, path), path, select_name, max_y)

\* ------------------------------------------- filesystem calls that change it

\* p is src or lies below it.
Within(src, p) == Len(p) >= Len(src) /\ SubSeq(p, 1, Len(src)) = src

\* The nodes after the node at src (a directory with what it holds) went to
\* dst, replacing what was there.
MoveNodes(f, src, dst) ==
  [q \in PathU |->
     IF q = dst THEN f.nodes[src]
     ELSE IF Len(q) = Len(dst) + 1 /\ Parent(q) = dst
     THEN (IF Join(src, Basename(q)) \in PathU
           THEN f.nodes[Join(src, Basename(q))] ELSE NoNode)
     ELSE IF Within(src, q) THEN NoNode
     ELSE f.nodes[q]]

\* A flag set after src went to dst.
MoveFlags(flags, src, dst) ==
  {q \in flags : ~Within(src, q) /\ ~Within(dst, q)}
    \cup (IF src \in flags THEN {dst} ELSE {})

\* The filesystem without the node at p and what it holds.
Unlinked(f, p) ==
  [nodes |-> [q \in PathU |-> IF Within(p, q) THEN NoNode ELSE f.nodes[q]],
   noread |-> {q \in f.noread : ~Within(p, q)},
   nostat |-> {q \in f.nostat : ~Within(p, q)}]

\* os.remove(p): [ok, fs]
OsRemove(f, p) ==
  IF ResolveErr(f, p) = "ok" /\ KindOf(f, p) = "file"
  THEN [ok |-> TRUE, fs |-> Unlinked(f, p)]
  ELSE [ok |-> FALSE, fs |-> f]

\* os.rmdir(p): [ok, fs]
OsRmdir(f, p) ==
  IF /\ ResolveErr(f, p) = "ok"
     /\ p # Root
     /\ KindOf(f, p) = "dir"
     /\ \A n \in Names : KindOf(f, Join(p, n)) = "none"
  THEN [ok |-> TRUE, fs |-> Unlinked(f, p)]
  ELSE [ok |-> FALSE, fs |-> f]

\* A path a new node can be created or replaced at.
Writable(f, p) ==
  /\ p \in PathU
  /\ IsDir(f, Parent(p))
  /\ p \notin f.nostat

\* shutil.move(src, dst): [ok, fs].  An existing directory dst takes src under
\* its own name and refuses when that name is taken; otherwise os.rename
\* replaces a file at dst without asking.  A rename that fails leaves the
\* fallback (copy and delete) failing for the same reason.
ShutilMove(f, src, dst) ==
  LET real_dst == IF IsDir(f, dst) THEN Join(dst, Basename(src)) ELSE dst
      can == /\ ResolveErr(f, src) = "ok"
             /\ src # Root
             /\ ~(IsDir(f, dst) /\ Exists(f, real_dst))
             /\ Writable(f, real_dst)
             /\ ~Within(src, real_dst)
             /\ \/ KindOf(f, real_dst) = "none"
                \/ KindOf(f, real_dst) = "file" /\ KindOf(f, src) = "file"
             /\ KindOf(f, src) = "dir" => Len(real_dst) = 1
  IN IF can
     THEN [ok |-> TRUE,
           fs |-> [nodes |-> MoveNodes(f, src, real_dst),
                   noread |-> MoveFlags(f.noread, src, real_dst),
                   nostat |-> MoveFlags(f.nostat, src, real_dst)]]
     ELSE [ok |-> FALSE, fs |-> f]

\* shutil.copy2(src, dst): [ok, fs]; dst gets the content (here: the size) of
\* src, replacing a file that was there.
ShutilCopy2(f, src, dst) ==
  LET can == /\ ResolveErr(f, src) = "ok"
             /\ KindOf(f, src) = "file"
             /\ Writable(f, dst)
             /\ KindOf(f, dst) \in {"none", "file"}
  IN IF can
     THEN [ok |-> TRUE,
           fs |-> [f EXCEPT !.nodes = [@ EXCEPT ![dst] = f.nodes[src]]]]
     ELSE [ok |-> FALSE, fs |-> f]

\* ------------------------------------------------- what other processes do

\* The directories there are, the root included.
DirPaths(f) == {Root} \cup {p \in PathU : KindOf(f, p) = "dir"}

\* One change made by another process: a chmod of a directory, an entry
\* whose lstat starts to fail, a directory replaced by a file, a file removed.
EnvSteps(f) ==
  {[f EXCEPT !.noread = IF p \in @ THEN @ \ {p} ELSE @ \cup {p}] :
     p \in DirPaths(f)}
  \cup {[f EXCEPT !.nostat = @ \cup {p}] :
          p \in {q \in PathU : Len(q) = 1 /\ Exists(f, q)}}
  \cup {[nodes |-> [Unlinked(f, p).nodes EXCEPT ![p] = FileNode("c0")],
         noread |-> Unlinked(f, p).noread,
         nostat |-> Unlinked(f, p).nostat] :
          p \in DirPaths(f) \ {Root}}
  \cup {Unlinked(f, p) :
          p \in {q \in PathU : KindOf(f, q) = "file" /\ q \notin f.nostat}}

\* ------------------------------------------------------ the prompt's text

\* What the user types at a destination prompt; << >> is an empty answer.
Dests == {<<"Error">>, <<"d">>, <<".", "/", "Error">>, NameMarked}

\* text.split("/")
RECURSIVE Split(_)
Split(text) ==
  IF text = << >> THEN << << >> >>
  ELSE LET rest == Split(Tail(text)) IN
       IF Head(text) = "/" THEN << << >> >> \o rest
       ELSE <<(<<Head(text)>> \o Head(rest))>> \o Tail(rest)

\* The path after the components comps were walked from path, as
\* os.path.normpath walks them: "" and "." stay, ".." goes up.
RECURSIVE Walk(_, _)
Walk(path, comps) ==
  IF comps = << >> THEN path
  ELSE IF Head(comps) \in {<< >>, <<".">>} THEN Walk(path, Tail(comps))
  ELSE IF Head(comps) = <<"..">> THEN Walk(Parent(path), Tail(comps))
  ELSE Walk(Join(path, Head(comps)), Tail(comps))

\* os.path.normpath(os.path.join(current, destination))
NormJoin(current, destination) ==
  IF Head(destination) = "/" THEN Walk(Root, Split(destination))
  ELSE Walk(current, Split(destination))

\* dest_path of the rename handler
RenameDest(current, destination) ==
  IF ~Contains(destination, "/") THEN Join(current, destination)
  ELSE NormJoin(current, destination)

\* ----------------------------------------------------------------- state

VARIABLES
  fs,              \* the filesystem
  changesLeft,     \* changes of the filesystem still to come
  current_path,    \* main: current_path
  contents_cache,  \* main: contents_cache (and its alias contents)
  selected_index,  \* main: selected_index, counted from 0
  scroll_offset,   \* main: scroll_offset, counted from 0
  status_message,  \* main: status_message
  content_height,  \* main: content_height of the last frame drawn in full
  pc,              \* where main is: "top" of the loop, in getch ("key",
                   \* "small"), waiting for the child ("suspended"), "done"
                   \* after q, "crashed" by an uncaught exception
  tty,             \* the terminal: curses owns it ("Active") or endwin()
                   \* released it ("Suspended"); and how often the handler
                   \* under way released and restored it
  call,            \* locals of the run / view branch while the child runs
  ev,              \* history: what the key handler that just ended (or
                   \* waits for the child) did; forgotten with the next
                   \* frame
  opened,          \* history: the directory the last handler entered, and
                   \* from where
  resized          \* history: the last frame's height differs from the one
                   \* before

vars == <<fs, changesLeft, current_path, contents_cache, selected_index,
          scroll_offset, status_message, content_height, pc, tty, call, ev,
          opened, resized>>

\* The navigation state refresh_contents works on.
Nav(cache, sel, scroll, status) ==
  [contents_cache |-> cache, selected_index |-> sel,
   scroll_offset |-> scroll, status_message |-> status]

NavNow == Nav(contents_cache, selected_index, scroll_offset, status_message)

NoCall == [mode |-> "none", name |-> << >>, outcome |-> "none"]

\* A history record: the handler, how it ended, the item it was about, the
\* path it started in, the refresh_contents calls and the filesystem calls it
\* made.
NoAnswer == <<"not asked">>

Ev(key, out, name, refreshes, fsops) ==
  [key |-> key, out |-> out, name |-> name, from |-> current_path,
   refreshes |-> refreshes, fsops |-> fsops, answer |-> NoAnswer]

\* The history record e of a handler that called confirm_action when asked
\* holds, and got answer.
Asked(e, asked, answer) ==
  [e EXCEPT !.answer = IF asked THEN answer ELSE NoAnswer]

EvNone ==
  [key |-> "none", out |-> "none", name |-> << >>, from |-> Root,
   refreshes |-> << >>, fsops |-> << >>, answer |-> NoAnswer]

NoOpened == [name |-> << >>, from |-> Root]

\* What opened is after a handler with the history record e.
OpenedBy(e) ==
  IF e.key = "opendir" /\ e.out = "ok"
  THEN [name |-> e.name, from |-> e.from] ELSE NoOpened

\* One refresh_contents call, and who owned the terminal when it was made.
RefreshCall(path, select_name, mode) ==
  [path |-> path, select |-> select_name, tty |-> mode]

\* status_message after the "Initial Data Load" of main.
InitialStatus(nav) ==
  IF nav.contents_cache = << >>
     /\ ~Contains(Lower(nav.status_message), "denied")
  THEN MsgEmpty ELSE nav.status_message

\* main up to its loop: the state variables, then refresh_contents(cwd).
InitialNav(nav) == [nav EXCEPT !.status_message = InitialStatus(nav)]

InitNav ==
  InitialNav(RefreshContents(Nav(<< >>, 0, 0, << >>), InitFs, Root, << >>,
                             MaxRows).nav)

Init ==
  /\ fs = InitFs
  /\ changesLeft = MaxChanges
  /\ current_path = Root
  /\ \E nav \in {InitNav} :
       /\ contents_cache = nav.contents_cache
       /\ selected_index = nav.selected_index
       /\ scroll_offset = nav.scroll_offset
       /\ status_message = nav.status_message
  /\ content_height = 0
  /\ pc = "top"
  /\ tty = [mode |-> "Active", released |-> 0, restored |-> 0]
  /\ call = NoCall
  /\ ev = [key |-> "init", out |-> "ok", name |-> << >>, from |-> Root,
           refreshes |-> <<RefreshCall(Root, << >>, "Active")>>,
           fsops |-> << >>, answer |-> NoAnswer]
  /\ opened = NoOpened
  /\ resized = FALSE

\* ------------------------------------------------------------ the frame

\* A variant of ClampIndex that puts the selection on the last entry; C20
\* tells the two apart.
ClampIndexToLast(sel, n) == IF n = 0 THEN 0 ELSE n - 1

\* "Ensure selected_index stays within bounds"
ClampIndex(sel, n) == IF n = 0 THEN 0 ELSE Max(0, Min(sel, n - 1))

\* A variant of RenderScroll without the elif branch; C4 tells the two apart.
RenderScrollUpOnly(sel, scroll, height) == IF sel < scroll THEN sel ELSE scroll

\* "Adjust scroll_offset based on selection and content_height"
RenderScroll(sel, scroll, height) ==
  IF sel < scroll THEN sel
  ELSE IF sel >= scroll + height THEN sel - height + 1
  ELSE scroll

\* The terminal is too small for the box.
TooSmall(max_y, max_x) ==
  max_y - 2 < TooSmallBoxHeight \/ max_x < MinWidth

\* The loop from its top to getch: the clamp, the size, the drawing.
Render ==
  /\ pc = "top"
  /\ \E max_y \in Rows, max_x \in Cols :
       \E sel \in {ClampIndex(selected_index, Len(contents_cache))} :
       /\ selected_index' = sel
       /\ IF TooSmall(max_y, max_x)
          THEN /\ pc' = "small"
               /\ UNCHANGED <<scroll_offset, content_height, resized>>
          ELSE /\ pc' = "key"
               /\ content_height' = max_y - BorderRows
               /\ scroll_offset' =
                    RenderScroll(sel, scroll_offset, max_y - BorderRows)
               /\ resized' = (content_height # 0
                              /\ content_height # max_y - BorderRows)
  /\ ev' = EvNone
  /\ tty' = [tty EXCEPT !.released = 0, !.restored = 0]
  /\ UNCHANGED <<fs, changesLeft, current_path, contents_cache, status_message,
                 call, opened>>

\* A variant of SmallKey without the "continue": a key other than q falls
\* through to the rest of the loop body; C16 tells the two apart.
SmallKeyNoContinue ==
  /\ pc = "small"
  /\ \E q \in BOOLEAN :
       /\ pc' = IF q THEN "done" ELSE "key"
       /\ ev' = Ev("small", IF q THEN "quit" ELSE "ignored", << >>, << >>,
                   << >>)
  /\ UNCHANGED <<fs, changesLeft, current_path, contents_cache, selected_index,
                 scroll_offset, status_message, content_height, tty, call,
                 opened, resized>>

\* The key read of the too-small branch: q ends the loop, any other key
\* starts the next iteration.
SmallKey ==
  /\ pc = "small"
  /\ \E q \in BOOLEAN :
       /\ pc' = IF q THEN "done" ELSE "top"
       /\ ev' = Ev("small", IF q THEN "quit" ELSE "ignored", << >>, << >>,
                   << >>)
  /\ UNCHANGED <<fs, changesLeft, current_path, contents_cache, selected_index,
                 scroll_offset, status_message, content_height, tty, call,
                 opened, resized>>

\* ------------------------------------------------------- ends of handlers

\* A handler falls out of the if-chain: "status_message = action_status or
\* status_message", and the loop starts over.
Finish(nav, action_status, f, e) ==
  /\ contents_cache' = nav.contents_cache
  /\ selected_index' = nav.selected_index
  /\ scroll_offset' = nav.scroll_offset
  /\ status_message' = IF action_status # << >> THEN action_status
                       ELSE nav.status_message
  /\ fs' = f
  /\ ev' = e
  /\ opened' = OpenedBy(e)
  /\ pc' = "top"

\* A handler leaves by "continue": the status assignment is skipped.
Continue(e) ==
  /\ ev' = e
  /\ opened' = OpenedBy(e)
  /\ pc' = "top"
  /\ UNCHANGED <<fs, contents_cache, selected_index, scroll_offset,
                 status_message>>

\* An exception leaves main: nav is what was assigned before it was raised.
Crash(nav, f, e) ==
  /\ contents_cache' = nav.contents_cache
  /\ selected_index' = nav.selected_index
  /\ scroll_offset' = nav.scroll_offset
  /\ status_message' = nav.status_message
  /\ fs' = f
  /\ ev' = e
  /\ opened' = OpenedBy(e)
  /\ pc' = "crashed"

\* A key handler starts: the terminal counts start over.
TtyIdle == [mode |-> "Active", released |-> 0, restored |-> 0]

\* The selected item, when "contents and 0 <= selected_index < len(contents)".
HasItem ==
  contents_cache # << >>
  /\ 0 <= selected_index /\ selected_index < Len(contents_cache)

Item == contents_cache[selected_index + 1]

\* ------------------------------------------------------------ navigation

KeyQuit ==
  /\ pc = "key"
  /\ pc' = "done"
  /\ ev' = Ev("quit", "quit", << >>, << >>, << >>)
  /\ opened' = NoOpened
  /\ tty' = TtyIdle
  /\ UNCHANGED <<fs, changesLeft, current_path, contents_cache, selected_index,
                 scroll_offset, status_message, content_height, call,
                 resized>>

\* selected_index after KEY_UP
MoveUp(sel) == Max(0, sel - 1)

\* A variant of MoveDown without the min(); C3 tells the two apart.
MoveDownUnbounded(sel, n) == sel + 1

\* selected_index after KEY_DOWN
MoveDown(sel, n) == Min(IF n > 0 THEN n - 1 ELSE 0, sel + 1)

\* selected_index after KEY_PPAGE
PageUp(sel, height) == Max(0, sel - height)

\* A variant of PageDown without the min(); C18 tells the two apart.
PageDownUnbounded(sel, n, height) == sel + height

\* selected_index after KEY_NPAGE
PageDown(sel, n, height) == Min(IF n > 0 THEN n - 1 ELSE 0, sel + height)

KeyUp ==
  /\ pc = "key"
  /\ Finish(Nav(contents_cache, MoveUp(selected_index), scroll_offset,
                status_message),
            << >>, fs, Ev("move", "ok", << >>, << >>, << >>))
  /\ tty' = TtyIdle
  /\ UNCHANGED <<changesLeft, current_path, content_height, call, resized>>

KeyDown ==
  /\ pc = "key"
  /\ Finish(Nav(contents_cache,
                MoveDown(selected_index, Len(contents_cache)),
                scroll_offset, status_message),
            << >>, fs, Ev("move", "ok", << >>, << >>, << >>))
  /\ tty' = TtyIdle
  /\ UNCHANGED <<changesLeft, current_path, content_height, call, resized>>

KeyPPage ==
  /\ pc = "key"
  /\ \E sel \in {PageUp(selected_index, content_height)} :
     Finish(Nav(contents_cache, sel,
                IF sel < scroll_offset THEN sel ELSE scroll_offset,
                status_message),
            << >>, fs, Ev("page", "ok", << >>, << >>, << >>))
  /\ tty' = TtyIdle
  /\ UNCHANGED <<changesLeft, current_path, content_height, call, resized>>

KeyNPage ==
  /\ pc = "key"
  /\ \E sel \in {PageDown(selected_index, Len(contents_cache),
                          content_height)} :
        Finish(Nav(contents_cache, sel,
                   IF sel >= scroll_offset + content_height
                   THEN Max(0, sel - content_height + 1) ELSE scroll_offset,
                   status_message),
               << >>, fs, Ev("page", "ok", << >>, << >>, << >>))
  /\ tty' = TtyIdle
  /\ UNCHANGED <<changesLeft, current_path, content_height, call, resized>>

\* A key no branch of the chain handles, or a handler whose
\* "if contents and ..." finds nothing selected.
KeyIgnored ==
  /\ pc = "key"
  /\ \E k \in {"other"} \cup (IF HasItem THEN {}
                               ELSE {"enter", "delete", "rename", "copy"}) :
       Finish(NavNow, << >>, fs, Ev(k, "ignored", << >>, << >>, << >>))
  /\ tty' = TtyIdle
  /\ UNCHANGED <<changesLeft, current_path, content_height, call, resized>>

\* Another process changes the filesystem while main waits in getch or for
\* the child.
Env ==
  /\ pc \in {"key", "suspended"}
  /\ changesLeft > 0
  /\ \E f \in EnvSteps(fs) : fs' = f
  /\ changesLeft' = changesLeft - 1
  /\ UNCHANGED <<current_path, contents_cache, selected_index,
                 scroll_offset, status_message, content_height, pc, tty, call,
                 ev, opened, resized>>

\* --------------------------------------------------- texts of the handlers

\* The text of an exception, f"{e}".
ExcText == <<"<e>">>

MsgCannotOpenInaccessible(name) == <<"Cannot open inaccessible item: ">> \o name

MsgPermissionDenied(path) == <<"Permission ", "denied", ": ">> \o PathStr(path)

MsgCannotOpen(name) == <<"Cannot open: ">> \o name

MsgPythonNotFound == <<"Error", ": python3 not found.">>

MsgErrorRunning == <<"Error", " running script: ">> \o ExcText

MsgReturned(name, code) ==
  <<"Returned from '">> \o name
    \o <<"' (code: ", IF code = 0 THEN "0" ELSE "1", ").">>

MsgClosedViewer(name) == <<"Closed viewer for '">> \o name \o <<"'.">>

MsgErrorViewing == <<"Error", " viewing file: ">> \o ExcText

MsgLessNotFound == <<"Error", ": 'less' command not found. Cannot view file.">>

MsgDirDeleted(name) == <<"Directory '">> \o name \o <<"' deleted.">>

MsgDirNotEmpty(name) == <<"Error", ": Dir '">> \o name \o <<"' not empty.">>

MsgFileDeleted(name) == <<"File '">> \o name \o <<"' deleted.">>

MsgErrorDeleting == <<"Error", " deleting: ">> \o ExcText

MsgDeleteCancelled == <<"Delete cancelled.">>

MsgSame == <<"Source and destination are same.">>

MsgMoved(destination) == <<"Moved/Renamed to '">> \o destination \o <<"'.">>

MsgErrorMoving == <<"Error", " moving: ">> \o ExcText

MsgRenameCancelled == <<"Rename/Move cancelled.">>

MsgCopied(destination) == <<"Copied to '">> \o destination \o <<"'.">>

MsgErrorCopying == <<"Error", " copying: ">> \o ExcText

MsgCopyCancelled == <<"Copy cancelled.">>

\* action_status of the three handlers that leave by "continue" on an item
\* that carries the marker.
MsgCannotDelete == <<"Cannot delete inaccessible item.">>

MsgCannotRename == <<"Cannot rename inaccessible item.">>

MsgCannotCopy == <<"Cannot copy inaccessible item.">>

\* The text a handler sets for the item name it refuses.
RejectionMsg(key, name) ==
  IF key = "enter" THEN MsgCannotOpenInaccessible(name)
  ELSE IF key = "delete" THEN MsgCannotDelete
  ELSE IF key = "rename" THEN MsgCannotRename
  ELSE MsgCannotCopy

\* '"[?]" in item_name': the handlers take the item for inaccessible.
Marked(name) == Contains(name, "[?]")

\* ------------------------------------------------------- Enter: directories

\* The filesystems the second listing of a handler can find: the one the first
\* listing found, or that one changed by another process in between.
RaceFs == {fs} \cup (IF changesLeft > 0 THEN EnvSteps(fs) ELSE {})

\* Enter on an item that carries the marker.
OpenInaccessible ==
  /\ pc = "key"
  /\ HasItem /\ Marked(Item.name)
  /\ Finish(NavNow, MsgCannotOpenInaccessible(Item.name), fs,
            Ev("enter", "refused", Item.name, << >>, << >>))
  /\ tty' = TtyIdle
  /\ UNCHANGED <<changesLeft, current_path, content_height, call, resized>>

\* action_status of "Enter directory" when the test listing came back None.
OpenDeniedStatus(f, item) ==
  IF IsDir(f, item.path) THEN MsgPermissionDenied(item.path)
  ELSE MsgCannotOpen(item.name)

\* Enter on a directory: a test listing, then current_path and the refresh.
OpenDir ==
  /\ pc = "key"
  /\ HasItem /\ ~Marked(Item.name) /\ Item.is_dir
  /\ \E check \in {GetDirectoryContents(fs, Item.path)} :
     IF check.tag = "raise"
     THEN /\ Crash(NavNow, fs, Ev("opendir", "raise", Item.name, << >>, << >>))
          /\ UNCHANGED <<current_path, changesLeft>>
     ELSE IF check.tag = "denied"
     THEN /\ Finish(NavNow, OpenDeniedStatus(fs, Item), fs,
                    Ev("opendir", "denied", Item.name, << >>, << >>))
          /\ UNCHANGED <<current_path, changesLeft>>
     ELSE \E f \in RaceFs :
            \E r \in {RefreshContents(NavNow, f, Item.path, << >>,
                                     content_height + BorderRows)},
               calls \in {<<RefreshCall(Item.path, << >>, tty.mode)>>} :
               /\ current_path' = Item.path
               /\ changesLeft' = IF f = fs THEN changesLeft ELSE changesLeft - 1
               /\ IF r.raised
                  THEN Crash(NavNow, f,
                             Ev("opendir", "raise", Item.name, calls, << >>))
                  ELSE Finish(r.nav, << >>, f,
                              Ev("opendir", "ok", Item.name, calls, << >>))
  /\ tty' = TtyIdle
  /\ UNCHANGED <<content_height, call, resized>>

\* Backspace / Left / u: the parent, a test listing, then current_path and
\* the refresh that selects the directory left.
Back ==
  /\ pc = "key"
  /\ \E parent_path \in {Parent(current_path)},
        old_basename \in {Basename(current_path)},
        check \in {GetDirectoryContents(fs, Parent(current_path))} :
     IF parent_path = current_path
     THEN /\ Finish(NavNow, << >>, fs,
                    Ev("back", "root", << >>, << >>, << >>))
          /\ UNCHANGED <<current_path, changesLeft>>
     ELSE IF check.tag = "raise"
     THEN /\ Crash(NavNow, fs, Ev("back", "raise", old_basename, << >>, << >>))
          /\ UNCHANGED <<current_path, changesLeft>>
     ELSE IF check.tag = "denied"
     THEN /\ Finish(NavNow, MsgPermissionDenied(parent_path), fs,
                    Ev("back", "denied", old_basename, << >>, << >>))
          /\ UNCHANGED <<current_path, changesLeft>>
     ELSE \E f \in RaceFs, max_y \in Rows :
            \E r \in {RefreshContents(NavNow, f, parent_path, old_basename,
                                     max_y)},
               calls \in {<<RefreshCall(parent_path, old_basename,
                                        tty.mode)>>} :
               /\ current_path' = parent_path
               /\ changesLeft' = IF f = fs THEN changesLeft ELSE changesLeft - 1
               /\ IF r.raised
                  THEN Crash(NavNow, f,
                             Ev("back", "raise", old_basename, calls, << >>))
                  ELSE Finish(r.nav, << >>, f,
                              Ev("back", "ok", old_basename, calls, << >>))
  /\ tty' = TtyIdle
  /\ UNCHANGED <<content_height, call, resized>>

\* ------------------------------------------------- Enter: run and view

\* curses.endwin()
Release(t) ==
  [mode |-> "Suspended", released |-> t.released + 1, restored |-> t.restored]

\* curses.initscr(), noecho, cbreak, keypad, clear
Restore(t) ==
  [mode |-> "Active", released |-> t.released, restored |-> t.restored + 1]

\* A variant of BridgeFinally that restores the terminal only behind a child
\* that was started; C1 tells the two apart.
BridgeFinallyOnSuccess(t, outcome) == IF outcome = "ok" THEN Restore(t) ELSE t

\* The finally block of the run and of the view branch, whatever the try
\* block ended with.
BridgeFinally(t, outcome) == Restore(t)

\* Enter on a .py file: endwin(), then subprocess.run(['python3', path]),
\* which starts the child ("ok"), raises FileNotFoundError ("notfound") or
\* raises something else ("error"); main then waits for the child or, in the
\* except clauses, for Enter.
OpenRun ==
  /\ pc = "key"
  /\ HasItem /\ ~Marked(Item.name) /\ ~Item.is_dir
  /\ EndsWith(Item.name, ".py")
  /\ \E outcome \in {"ok", "notfound", "error"} :
       call' = [mode |-> "run", name |-> Item.name, outcome |-> outcome]
  /\ tty' = Release(TtyIdle)
  /\ pc' = "suspended"
  /\ ev' = Ev("run", "suspended", Item.name, << >>, << >>)
  /\ opened' = NoOpened
  /\ UNCHANGED <<fs, changesLeft, current_path, contents_cache, selected_index,
                 scroll_offset, status_message, content_height, resized>>

\* Enter on any other file when shutil.which('less') finds nothing.
OpenViewMissing ==
  /\ pc = "key"
  /\ HasItem /\ ~Marked(Item.name) /\ ~Item.is_dir
  /\ ~EndsWith(Item.name, ".py")
  /\ Finish(NavNow, MsgLessNotFound, fs,
            Ev("view", "toolmissing", Item.name, << >>, << >>))
  /\ tty' = TtyIdle
  /\ UNCHANGED <<changesLeft, current_path, content_height, call, resized>>

\* Enter on any other file when less was found: endwin(), then
\* subprocess.run([less_path, path]), which starts less ("ok") or raises
\* ("error").
OpenView ==
  /\ pc = "key"
  /\ HasItem /\ ~Marked(Item.name) /\ ~Item.is_dir
  /\ ~EndsWith(Item.name, ".py")
  /\ \E outcome \in {"ok", "error"} :
       call' = [mode |-> "view", name |-> Item.name, outcome |-> outcome]
  /\ tty' = Release(TtyIdle)
  /\ pc' = "suspended"
  /\ ev' = Ev("view", "suspended", Item.name, << >>, << >>)
  /\ opened' = NoOpened
  /\ UNCHANGED <<fs, changesLeft, current_path, contents_cache, selected_index,
                 scroll_offset, status_message, content_height, resized>>

\* The exit codes a child that was started can end with.
ExitCodes(c) == IF c.mode = "run" /\ c.outcome = "ok" THEN {0, 1} ELSE {0}

\* action_status when the finally block is left.
BridgeStatus(c, code) ==
  IF c.mode = "run"
  THEN (IF c.outcome = "notfound" THEN MsgPythonNotFound
        ELSE IF c.outcome = "error" THEN MsgErrorRunning
        ELSE MsgReturned(c.name, code))
  ELSE (IF c.outcome = "error" THEN MsgErrorViewing
        ELSE MsgClosedViewer(c.name))

\* How the history names the end of a run or view.
BridgeOut(c) ==
  IF c.outcome = "notfound" THEN "toolmissing"
  ELSE IF c.outcome = "error" THEN "error" ELSE "ok"

\* A variant of BridgeSelect that passes no select_name; C7 tells the two
\* apart.
BridgeSelectNone(c) == << >>

\* select_name of the refresh the finally blocks end with.
BridgeSelect(c) == c.name

\* The child ended (or Enter was pressed after the error text): the finally
\* block restores the terminal, sets status_message and refreshes.
BridgeReturn ==
  /\ pc = "suspended"
  /\ \E code \in ExitCodes(call), max_y \in Rows :
       \E action_status \in {BridgeStatus(call, code)},
          t \in {BridgeFinally(tty, call.outcome)} :
       \E before \in {Nav(contents_cache, selected_index, scroll_offset,
                          action_status)},
          calls \in {<<RefreshCall(current_path, BridgeSelect(call),
                                   t.mode)>>} :
       \E r \in {RefreshContents(before, fs, current_path,
                                 BridgeSelect(call), max_y)} :
          /\ tty' = t
          /\ IF r.raised
             THEN Crash(before, fs, Ev(call.mode, "raise", call.name, calls,
                                       << >>))
             ELSE Finish(r.nav, action_status, fs,
                         Ev(call.mode, BridgeOut(call), call.name, calls,
                            << >>))
  /\ call' = NoCall
  /\ UNCHANGED <<changesLeft, current_path, content_height, resized>>

\* -------------------------------------------------- delete, rename, copy

\* One filesystem call of a handler, for the history.
FsOp(op, src, dst) == [op |-> op, src |-> src, dst |-> dst]

\* confirm_action: only the answer y (in either case) confirms; an empty
\* answer is None.
Answers == {<<"y">>, <<"Y">>, <<"n">>, << >>}

\* A variant of Confirmed with yes as the default; C13 tells the two apart.
ConfirmedUnlessNo(answer) == Lower(answer) # <<"n">>

Confirmed(answer) == answer # << >> /\ Lower(answer) = <<"y">>

\* A variant of DeleteRefreshes that always refreshes; C12 tells the two
\* apart.
DeleteRefreshesAlways(action_status) == TRUE

\* "Only refresh if status doesn't contain 'Error'"
DeleteRefreshes(action_status) == ~Contains(action_status, "Error")

\* "Try to keep selection nearby"
DeleteIndex(prev_idx, n) == Max(0, Min(prev_idx, n - 1))

\* The try block of the delete handler up to the refresh: what was called,
\* the filesystem after it, and action_status ("raised": the except clause
\* set it).
DeleteAttempt(f, item) ==
  IF item.is_dir
  THEN LET l == Listdir(f, item.path) IN
       IF l.err # "ok"
       THEN [fs |-> f, fsops |-> << >>, raised |-> TRUE,
             action_status |-> MsgErrorDeleting]
       ELSE IF l.names # << >>
       THEN [fs |-> f, fsops |-> << >>, raised |-> FALSE,
             action_status |-> MsgDirNotEmpty(item.name)]
       ELSE LET d == OsRmdir(f, item.path) IN
            [fs |-> d.fs, fsops |-> <<FsOp("rmdir", item.path, << >>)>>,
             raised |-> ~d.ok,
             action_status |-> IF d.ok THEN MsgDirDeleted(item.name)
                               ELSE MsgErrorDeleting]
  ELSE LET d == OsRemove(f, item.path) IN
       [fs |-> d.fs, fsops |-> <<FsOp("remove", item.path, << >>)>>,
        raised |-> ~d.ok,
        action_status |-> IF d.ok THEN MsgFileDeleted(item.name)
                          ELSE MsgErrorDeleting]

KeyDelete ==
  /\ pc = "key"
  /\ HasItem
  /\ IF Marked(Item.name)
     THEN Continue(Ev("delete", "refused", Item.name, << >>, << >>))
     ELSE \E answer \in Answers :
       IF ~Confirmed(answer)
       THEN Finish(NavNow, MsgDeleteCancelled, fs,
                   Asked(Ev("delete", "cancelled", Item.name, << >>, << >>), TRUE, answer))
       ELSE
         \E a \in {DeleteAttempt(fs, Item)},
            calls \in {<<RefreshCall(current_path, << >>, tty.mode)>>} :
         \E before \in {Nav(contents_cache, selected_index, scroll_offset,
                            a.action_status)} :
         \E r \in {RefreshContents(before, a.fs, current_path, << >>,
                                   content_height + BorderRows)} :
            IF a.raised
            THEN Finish(NavNow, a.action_status, a.fs,
                        Asked(Ev("delete", "error", Item.name, << >>, a.fsops), TRUE, answer))
            ELSE IF ~DeleteRefreshes(a.action_status)
            THEN Finish(NavNow, a.action_status, a.fs,
                        Asked(Ev("delete", IF a.fsops = << >> THEN "notempty"
                                     ELSE "norefresh",
                           Item.name, << >>, a.fsops), TRUE, answer))
            ELSE IF r.raised
            THEN Finish(before, MsgErrorDeleting, a.fs,
                        Asked(Ev("delete", "refreshraised", Item.name, calls,
                           a.fsops), TRUE, answer))
            ELSE Finish([r.nav EXCEPT !.selected_index =
                           DeleteIndex(selected_index,
                                       Len(r.nav.contents_cache))],
                        a.action_status, a.fs,
                        Asked(Ev("delete", "ok", Item.name, calls, a.fsops), TRUE, answer))
  /\ tty' = TtyIdle
  /\ changesLeft' = IF fs' = fs THEN changesLeft ELSE changesLeft - 1
  /\ changesLeft' >= 0
  /\ UNCHANGED <<current_path, content_height, call, resized>>

\* "if item["path"] == dest_path" of the rename and of the copy handler.
SamePath(src, dest_path) == src = dest_path

KeyRename ==
  /\ pc = "key"
  /\ HasItem
  /\ IF Marked(Item.name)
     THEN Continue(Ev("rename", "refused", Item.name, << >>, << >>))
     ELSE \E destination \in Dests \cup {<< >>}, max_y \in Rows :
       IF destination = << >>
       THEN Finish(NavNow, MsgRenameCancelled, fs,
                   Ev("rename", "cancelled", Item.name, << >>, << >>))
       ELSE
         \E dest_path \in {RenameDest(current_path, destination)},
            before \in {Nav(contents_cache, selected_index, scroll_offset,
                            MsgMoved(destination))} :
         \E m \in {ShutilMove(fs, Item.path, dest_path)},
            ops \in {<<FsOp("move", Item.path, dest_path)>>},
            calls \in {<<RefreshCall(current_path, Basename(dest_path),
                                     tty.mode)>>} :
         \E r \in {RefreshContents(before, m.fs, current_path,
                                   Basename(dest_path), max_y)} :
            IF SamePath(Item.path, dest_path)
            THEN Continue(Ev("rename", "same", Item.name, << >>, << >>))
            ELSE IF ~m.ok
            THEN Finish(NavNow, MsgErrorMoving, fs,
                        Ev("rename", "error", Item.name, << >>, ops))
            ELSE IF r.raised
            THEN Finish(before, MsgErrorMoving, m.fs,
                        Ev("rename", "refreshraised", Item.name, calls, ops))
            ELSE Finish(r.nav, MsgMoved(destination), m.fs,
                        Ev("rename", "ok", Item.name, calls, ops))
  /\ tty' = TtyIdle
  /\ changesLeft' = IF fs' = fs THEN changesLeft ELSE changesLeft - 1
  /\ changesLeft' >= 0
  /\ UNCHANGED <<current_path, content_height, call, resized>>

\* dest_path of the copy handler: normalised, and inside the destination
\* when that is a directory.
CopyDest(f, current, destination, name) ==
  LET d == NormJoin(current, destination) IN
  IF IsDir(f, d) THEN Join(d, name) ELSE d

KeyCopy ==
  /\ pc = "key"
  /\ HasItem
  /\ IF Marked(Item.name)
     THEN Continue(Ev("copy", "refused", Item.name, << >>, << >>))
     ELSE IF Item.is_dir
     THEN Continue(Ev("copy", "isdir", Item.name, << >>, << >>))
     ELSE \E destination \in Dests \cup {<< >>}, answer \in Answers,
             max_y \in Rows :
       IF destination = << >>
       THEN Finish(NavNow, MsgCopyCancelled, fs,
                   Ev("copy", "cancelled", Item.name, << >>, << >>))
       ELSE
         \E dest_path \in {CopyDest(fs, current_path, destination,
                                     Item.name)},
            before \in {Nav(contents_cache, selected_index, scroll_offset,
                            MsgCopied(destination))},
            calls \in {<<RefreshCall(current_path, Item.name, tty.mode)>>} :
         \E c \in {ShutilCopy2(fs, Item.path, dest_path)},
            ops \in {<<FsOp("copy2", Item.path, dest_path)>>} :
         \E r \in {RefreshContents(before, c.fs, current_path, Item.name,
                                   max_y)} :
            IF SamePath(Item.path, dest_path)
            THEN Continue(Ev("copy", "same", Item.name, << >>, << >>))
            ELSE IF Exists(fs, dest_path) /\ ~Confirmed(answer)
            THEN Continue(Asked(Ev("copy", "declined", Item.name, << >>, << >>), Exists(fs, dest_path), answer))
            ELSE IF ~c.ok
            THEN Finish(NavNow, MsgErrorCopying, fs,
                        Asked(Ev("copy", "error", Item.name, << >>, ops), Exists(fs, dest_path), answer))
            ELSE IF r.raised
            THEN Finish(before, MsgErrorCopying, c.fs,
                        Asked(Ev("copy", "refreshraised", Item.name, calls, ops), Exists(fs, dest_path), answer))
            ELSE Finish(r.nav, MsgCopied(destination), c.fs,
                        Asked(Ev("copy", "ok", Item.name, calls, ops), Exists(fs, dest_path), answer))
  /\ tty' = TtyIdle
  /\ changesLeft' = IF fs' = fs THEN changesLeft ELSE changesLeft - 1
  /\ changesLeft' >= 0
  /\ UNCHANGED <<current_path, content_height, call, resized>>

\* ------------------------------------------------------ the specification

Next ==
  \/ Render
  \/ SmallKey
  \/ KeyQuit
  \/ KeyUp
  \/ KeyDown
  \/ KeyPPage
  \/ KeyNPage
  \/ KeyIgnored
  \/ OpenInaccessible
  \/ OpenDir
  \/ OpenRun
  \/ OpenViewMissing
  \/ OpenView
  \/ BridgeReturn
  \/ Back
  \/ KeyDelete
  \/ KeyRename
  \/ KeyCopy
  \/ Env

Spec == Init /\ [][Next]_vars

\* ------------------------------------------------------------ properties

\* The names of the entries of a listing.
EntryNames(items) == {items[i].name : i \in DOMAIN items}

\* main stands behind a key handler that has just ended.
AfterHandler == pc \in {"top", "crashed"}

\* C1: a run or view that released the terminal (endwin) has restored it
\* exactly once when the handler ends, whether the child exited with 0, with
\* another code or was never started; and the terminal is Active whenever
\* main draws a frame or reads a key.
C1_TerminalRestoredOnce ==
  /\ pc \in {"top", "key", "small"} => tty.mode = "Active"
  /\ (AfterHandler /\ tty.released > 0)
       => tty.released = 1 /\ tty.restored = 1 /\ tty.mode = "Active"
  /\ pc = "suspended" => tty.released = 1 /\ tty.restored = 0

\* C1, its case: a run whose child exited with a code other than 0 has ended
\* and the terminal was restored.
C1_Witness ==
  /\ pc = "top"
  /\ ev.key = "run" /\ ev.out = "ok"
  /\ status_message = MsgReturned(ev.name, 1)
  /\ tty.released = 1 /\ tty.restored = 1

\* C2: when the tool of a run (python3) or of a view (less) is not found, the
\* handler ends with the tool-not-found status and the terminal was never
\* released during it.
C2_ToolMissingNeverSuspends ==
  /\ (AfterHandler /\ ev.out = "toolmissing")
       => /\ tty.released = 0
          /\ status_message \in {MsgPythonNotFound, MsgLessNotFound}
  /\ (pc = "suspended" /\ call.outcome = "notfound") => tty.mode = "Active"

\* C3: in every state, at a frame as after every key handler, selected_index
\* is 0 when the list is empty and 0 <= selected_index < len(contents)
\* otherwise.
C3_IndexInBounds ==
  IF contents_cache = << >> THEN selected_index = 0
  ELSE 0 <= selected_index /\ selected_index < Len(contents_cache)

\* C3, its case: KEY_UP or KEY_DOWN was handled on an empty list.
C3_Witness ==
  /\ pc = "top"
  /\ ev.key = "move"
  /\ contents_cache = << >>
  /\ selected_index = 0

\* C4: after a frame was drawn on a terminal that is not too small, the list
\* has content_height >= 1 rows and
\* scroll_offset <= selected_index <= scroll_offset + content_height - 1.
C4_SelectionVisible ==
  pc = "key"
    => /\ content_height >= 1
       /\ scroll_offset <= selected_index
       /\ selected_index <= scroll_offset + content_height - 1

\* C4, its case: the frame was drawn after the terminal changed its height,
\* and the list is scrolled.
C4_Witness ==
  /\ pc = "key"
  /\ resized
  /\ scroll_offset > 0
  /\ selected_index = scroll_offset + content_height - 1

\* C5: no failure of a filesystem or process call ends the loop: main never
\* leaves a key handler by an uncaught exception.
C5_LoopSurvives == pc # "crashed"

\* A filesystem call of the handler that just ended went through.
FsOpDone == ev.fsops # << >> /\ ev.out # "error"

\* What contents_cache is after a refresh of current_path that finds the
\* filesystem as it is now.
FreshEntries == GetDirectoryContents(fs, current_path).items

\* C6: after a delete, rename or copy that went through on the filesystem,
\* and after a return from a child process, contents_cache is what a listing
\* of current_path gives now (a listing that can be made at all).
C6_ListNeverStale ==
  (/\ pc = "top"
   /\ \/ ev.key \in {"delete", "rename", "copy"} /\ FsOpDone
      \/ ev.key \in {"run", "view"}
   /\ GetDirectoryContents(fs, current_path).tag # "raise")
    => contents_cache = FreshEntries

\* C7: Enter on a .py file releases the terminal for one run; when the
\* handler ends the terminal was restored and refresh_contents was called
\* once, for current_path, with select_name the name of the file, the
\* terminal being Active; the file is selected when the new listing names it.
C7_RunThenOneRefresh ==
  /\ (pc = "suspended" /\ call.mode = "run")
       => tty.released = 1 /\ ev.refreshes = << >> /\ call.name = ev.name
  /\ (AfterHandler /\ ev.key = "run")
       => /\ tty.released = 1 /\ tty.restored = 1
          /\ ev.refreshes = <<RefreshCall(current_path, ev.name, "Active")>>
  /\ (pc = "top" /\ ev.key = "run" /\ ev.name \in EntryNames(contents_cache))
       => contents_cache[selected_index + 1].name = ev.name

\* C7, its case: a run has ended and its file, not the first of the list, is
\* selected again.
C7_Witness ==
  /\ pc = "top"
  /\ ev.key = "run"
  /\ selected_index > 0
  /\ contents_cache[selected_index + 1].name = ev.name
  /\ EndsWith(ev.name, ".py")

\* C8: Enter on a directory D that was entered, then Back as the next key
\* handled: when a listing of the directory D was entered from names D then,
\* current_path is that directory again and the selected entry is named D.
C8_OpenThenBack ==
  [][(pc = "key" /\ opened.name # << >> /\ ev'.key = "back")
       => (opened.name \in
             EntryNames(GetDirectoryContents(fs', opened.from).items)
             => /\ current_path' = opened.from
                /\ selected_index' < Len(contents_cache')
                /\ contents_cache'[selected_index' + 1].name = opened.name)]_vars

\* C8, its case: Back has left a directory that is not the first entry of
\* its parent, and that entry is selected.
C8_Witness ==
  /\ pc = "top"
  /\ ev.key = "back" /\ ev.out = "ok"
  /\ ev.name = NameErr
  /\ current_path = Root
  /\ selected_index > 0
  /\ contents_cache[selected_index + 1].name = NameErr

\* The paths and names refresh_contents is called with below.
RefreshPaths == {current_path, Parent(current_path)}

RefreshNames == Names \cup {<< >>}

\* C9: refresh_contents(path, select_name) called twice by the handler of a
\* key, with the same terminal height and the same filesystem, leaves
\* contents_cache, selected_index, scroll_offset and status_message as one
\* call leaves them.
C9_RefreshIdempotent ==
  pc = "key" =>
    \A path \in RefreshPaths, select_name \in RefreshNames, max_y \in Rows :
      \A once \in {RefreshContents(NavNow, fs, path, select_name, max_y)} :
        RefreshContents(once.nav, fs, path, select_name, max_y) = once

\* C9, its case: a refresh has kept a status other than "Refreshed." and has
\* selected an entry other than the first.
C9_Witness ==
  /\ pc = "top"
  /\ ev.refreshes # << >>
  /\ selected_index > 0
  /\ status_message # << >>
  /\ ~Contains(status_message, "Refreshed.")
  /\ RefreshContents(NavNow, fs, current_path,
                     contents_cache[selected_index + 1].name,
                     content_height + BorderRows).nav = NavNow

\* C10: a rename or copy whose destination is the source calls neither
\* shutil.move nor shutil.copy2, and the status the next frame shows is
\* "Source and destination are same."
C10_SameReported ==
  (pc = "top" /\ ev.key \in {"rename", "copy"} /\ ev.out = "same")
    => ev.fsops = << >> /\ status_message = MsgSame

\* C11: Enter, d, r or c on an item that carries the marker calls nothing on
\* the filesystem, starts no child, refreshes nothing, and the status the
\* next frame shows is the handler's text for the refusal.
C11_InaccessibleRejected ==
  (pc = "top" /\ ev.out = "refused")
    => /\ ev.fsops = << >> /\ ev.refreshes = << >> /\ tty.released = 0
       /\ status_message = RejectionMsg(ev.key, ev.name)

\* The user typed y or Y at the confirmation.
SaidYes(answer) == answer \in {<<"y">>, <<"Y">>}

\* C12: d on a directory that holds something, confirmed with y, removes
\* nothing, calls neither os.rmdir nor refresh_contents, sets the status
\* "Error: Dir '...' not empty." and leaves contents_cache, selected_index,
\* scroll_offset and current_path as they were.
C12_NonEmptyDirKept ==
  [][(/\ pc = "key" /\ HasItem
      /\ ~Marked(Item.name) /\ Item.is_dir
      /\ Listdir(fs, Item.path).err = "ok"
      /\ Listdir(fs, Item.path).names # << >>
      /\ ev'.key = "delete" /\ SaidYes(ev'.answer))
       => /\ fs' = fs
          /\ ev'.fsops = << >> /\ ev'.refreshes = << >>
          /\ status_message' = MsgDirNotEmpty(Item.name)
          /\ Contains(status_message', "Error")
          /\ UNCHANGED <<contents_cache, selected_index, scroll_offset,
                         current_path>>]_vars

\* C12, its case: the delete of a directory that holds an entry was
\* confirmed and has ended.
C12_Witness ==
  /\ pc = "top"
  /\ ev.key = "delete" /\ SaidYes(ev.answer)
  /\ ev.name \in EntryNames(contents_cache)
  /\ Listdir(fs, Join(current_path, ev.name)).names # << >>
  /\ status_message = MsgDirNotEmpty(ev.name)

\* C13: the delete handler changes the filesystem and the list only when
\* the confirmation was answered y; the copy handler writes onto a
\* destination that exists only when the overwrite confirmation was answered
\* y; any other answer, the empty one included, leaves both as they were.
C13_ConfirmationGates ==
  [][(pc = "key" /\ ev'.key \in {"delete", "copy"})
       => /\ (ev'.key = "delete" /\ ~SaidYes(ev'.answer))
               => /\ fs' = fs /\ ev'.fsops = << >>
                  /\ contents_cache' = contents_cache
          /\ (ev'.key = "copy" /\ fs' # fs
                /\ KindOf(fs, ev'.fsops[1].dst) # "none")
               => SaidYes(ev'.answer)
          /\ (ev'.key = "copy" /\ ev'.answer # NoAnswer
                /\ ~SaidYes(ev'.answer))
               => /\ fs' = fs /\ ev'.fsops = << >>
                  /\ contents_cache' = contents_cache]_vars

\* C13, its case: the overwrite confirmation of a copy was answered with
\* nothing and the handler has ended.
C13_Witness ==
  /\ pc = "top"
  /\ ev.key = "copy" /\ ev.out = "declined"
  /\ ev.answer = << >>
  /\ ev.fsops = << >>

\* The handler that just ended called refresh_contents, and the listing of
\* the path it refreshed was refused for lack of permission.
RefreshDenied ==
  /\ pc = "top"
  /\ ev.refreshes # << >>
  /\ ev.out \notin {"raise", "refreshraised"}
  /\ GetDirectoryContents(fs, ev.refreshes[1].path).tag = "denied"

\* C14: when the refresh of a handler (Enter, Back, the return from a run or
\* view, delete, rename, copy) emptied the list because the listing was
\* refused for lack of permission, the status the next frame shows is the
\* permission text naming the path.
C14_DeniedShown ==
  RefreshDenied
    => /\ contents_cache = << >>
       /\ status_message = MsgErrorRefreshing(ev.refreshes[1].path)

\* The name a record of the listing was made for.
ListedName(item) == Basename(item.path)

\* items is in the order of the lister: no item that is not a directory
\* before a directory, and inside either group no name before one that is
\* smaller when both are lowered.
ListerOrdered(items) ==
  \A i, j \in DOMAIN items :
    i < j => /\ items[j].is_dir => items[i].is_dir
             /\ items[i].is_dir = items[j].is_dir
                  => ~StrLess(Lower(items[j].name), Lower(items[i].name))

\* items holds one record for each name os.listdir gave, a record whose
\* lstat failed carrying the marker, no directory flag and no size.
ListerComplete(f, path, items) ==
  /\ Len(items) = Len(Listdir(f, path).names)
  /\ \A k \in DOMAIN Listdir(f, path).names :
       \E i \in DOMAIN items :
         /\ ListedName(items[i]) = Listdir(f, path).names[k]
         /\ items[i].path = Join(path, Listdir(f, path).names[k])
         /\ IF Lstat(f, items[i].path).err = "ok"
            THEN /\ items[i].name = ListedName(items[i])
                 /\ items[i].is_dir = Lstat(f, items[i].path).is_dir
            ELSE /\ items[i].name = ListedName(items[i]) \o <<" ", "[?]">>
                 /\ ~items[i].is_dir /\ items[i].size = NoneSize

\* C15: for every directory of every filesystem that is reached,
\* get_directory_contents returns one record for each name, a name whose
\* lstat fails included and marked, the directories first and the names of
\* either group ascending when lowered.
C15_ListerOrdered ==
  pc = "key" =>
    \A path \in DirPaths(fs) :
      \A l \in {GetDirectoryContents(fs, path)} :
        (Listdir(fs, path).err = "ok")
          => /\ l.tag = "list"
             /\ ListerComplete(fs, path, l.items)
             /\ ListerOrdered(l.items)

\* C15, its case: a directory holds the files Error and a.py, which str
\* order and lowered order put differently, and the list shows it.
C15_Witness ==
  /\ pc = "key"
  /\ Len(contents_cache) = 2
  /\ contents_cache[1].name = NamePy /\ ~contents_cache[1].is_dir
  /\ contents_cache[2].name = NameErr /\ ~contents_cache[2].is_dir
  /\ contents_cache = GetDirectoryContents(fs, current_path).items
  /\ StrLess(NameErr, NamePy)

\* C16: a key read while the terminal is too small changes neither
\* current_path, contents_cache, selected_index, scroll_offset nor
\* status_message, calls nothing on the filesystem and starts no child; q
\* ends the loop, every other key starts the next iteration.
C16_TooSmallOnlyQuit ==
  [][pc = "small"
       => /\ UNCHANGED <<current_path, contents_cache, selected_index,
                         scroll_offset, status_message, fs, tty, call>>
          /\ ev'.fsops = << >> /\ ev'.refreshes = << >>
          /\ pc' \in {"done", "top"}
          /\ ev'.out = "quit" <=> pc' = "done"]_vars

\* C16, its case: a key other than q was read on a terminal too small, with
\* a selection and a status that a handler of that key would have changed.
C16_Witness ==
  /\ pc = "top"
  /\ ev.key = "small" /\ ev.out = "ignored"
  /\ selected_index > 0
  /\ status_message # MsgRefreshed

\* C17: a status set by one handler is gone after a later key whose handler
\* sets none: KEY_UP or KEY_DOWN handled under the action_status of an
\* earlier handler (a text that no refresh and no initial load sets) leaves
\* another status, or none.
C17_StatusTransient ==
  [][(/\ pc = "key" /\ ev'.key = "move"
      /\ status_message \notin {<< >>, MsgRefreshed, MsgEmpty}
      /\ ~Contains(status_message, " refreshing: Permission "))
       => status_message' # status_message]_vars

\* The handler that just ended was one of KEY_UP, KEY_DOWN, KEY_PPAGE,
\* KEY_NPAGE or one that called refresh_contents.
MovedOrRefreshed(e) == e.key \in {"move", "page"} \/ e.refreshes # << >>

\* The selection sel lies in the height rows shown from scroll on.
InViewport(sel, scroll, height) ==
  scroll <= sel /\ sel <= scroll + height - 1

\* C18 as stated: with a list that is not empty, right after KEY_UP,
\* KEY_DOWN, a page key or a refresh was handled, before the next frame,
\* scroll_offset <= selected_index <= scroll_offset + content_height - 1.
C18_ScrollAfterEvent ==
  (/\ pc = "top" /\ MovedOrRefreshed(ev)
   /\ contents_cache # << >> /\ content_height >= 1)
    => InViewport(selected_index, scroll_offset, content_height)

\* C18 as it holds: with a list that is not empty, right after such a
\* handler 0 <= selected_index < len(contents); the selection lies in the
\* viewport right after a page key, and after the other handlers once the
\* next frame was drawn in full.
C18_ScrollAfterRender ==
  [][/\ (pc' = "top" /\ MovedOrRefreshed(ev') /\ contents_cache' # << >>)
          => 0 <= selected_index' /\ selected_index' < Len(contents_cache')
     /\ (pc' = "top" /\ ev'.key = "page" /\ contents_cache' # << >>)
          => InViewport(selected_index', scroll_offset', content_height')
     /\ (/\ pc = "top" /\ MovedOrRefreshed(ev) /\ contents_cache # << >>
         /\ pc' = "key")
          => InViewport(selected_index', scroll_offset', content_height')]_vars

\* C18, its case: a page key has moved the selection and scrolled the list.
C18_Witness ==
  /\ pc = "top"
  /\ ev.key = "page"
  /\ scroll_offset > 0
  /\ selected_index = scroll_offset + content_height - 1
  /\ selected_index = Len(contents_cache) - 1

\* The directory the handler with the history record e went for: the item's
\* path for Enter, the parent for Back.
NavTarget(e) ==
  IF e.key = "opendir" THEN Join(e.from, e.name) ELSE Parent(e.from)

\* C19: Enter on a directory, and Back, end in one of two ways, whatever
\* get_directory_contents returns at each of its calls: current_path is the
\* target, contents_cache its listing and (for Enter) both indices 0; or
\* current_path, contents_cache, selected_index and scroll_offset are as
\* before and the status is "Permission denied: <target>".
C19_AllOrNothing ==
  [][(/\ pc = "key" /\ pc' = "top"
      /\ ev'.key \in {"opendir", "back"} /\ ev'.out # "root")
       => \/ /\ current_path' = NavTarget(ev')
             /\ GetDirectoryContents(fs', NavTarget(ev')).tag = "list"
             /\ contents_cache' =
                  GetDirectoryContents(fs', NavTarget(ev')).items
             /\ ev'.key = "opendir"
                  => selected_index' = 0 /\ scroll_offset' = 0
          \/ /\ UNCHANGED <<current_path, contents_cache, selected_index,
                             scroll_offset>>
             /\ status_message' = MsgPermissionDenied(NavTarget(ev'))]_vars

\* A step of the loop from its top to the key read: one frame.
FrameStep == pc = "top" /\ pc' \in {"key", "small"}

\* C20 as stated: a frame leaves current_path, contents_cache,
\* selected_index, scroll_offset and status_message as they were, at every
\* terminal size.
C20_RenderNoEffect ==
  [][FrameStep => UNCHANGED <<current_path, contents_cache, selected_index,
                              scroll_offset, status_message>>]_vars

\* C20 as it holds: a frame leaves current_path, contents_cache,
\* selected_index and status_message as they were; it leaves scroll_offset
\* as it was when the terminal is too small or the selection already lies
\* in the rows shown, and otherwise moves it to bring the selection into
\* them; the same frame drawn again at the same size changes none of the
\* five.
C20_RenderScrollOnly ==
  [][FrameStep =>
       /\ UNCHANGED <<current_path, contents_cache, selected_index,
                      status_message>>
       /\ pc' = "small" => scroll_offset' = scroll_offset
       /\ (/\ pc' = "key"
           /\ InViewport(selected_index, scroll_offset, content_height'))
            => scroll_offset' = scroll_offset
       /\ pc' = "key"
            => InViewport(selected_index', scroll_offset', content_height')
       /\ ClampIndex(selected_index', Len(contents_cache')) = selected_index'
       /\ pc' = "key"
            => RenderScroll(selected_index', scroll_offset', content_height')
                 = scroll_offset']_vars

\* C20, its case: a frame was drawn at the height of the frame before it,
\* with the list scrolled so that the selection is on its last row.
C20_Witness ==
  /\ pc = "key"
  /\ ~resized
  /\ ev = EvNone
  /\ scroll_offset > 0
  /\ selected_index = scroll_offset + content_height - 1

\* C21: at every frame, from the first one on, status_message is not the
\* empty string, so the footer draws the status and never the help line.
C21_StatusNeverEmpty ==
  pc \in {"top", "key", "small"} => status_message # << >>

\* C21, its case: a frame was drawn after a refresh of another directory
\* that found "Refreshed." as the status before it and so kept none.
C21_Witness ==
  /\ pc = "key"
  /\ current_path # Root
  /\ status_message = MsgRefreshed

\* The lstat of the record item failed when the listing was made: the
\* record still has the size it was created with.
StatFailed(item) == item.size = NoneSize

\* C22: Enter, d, r or c refuses the selected item as inaccessible only
\* when its lstat failed during the listing; an item whose lstat went
\* through is not refused, a name that holds the text "[?]" included.
C22_RefusedOnlyIfStatFailed ==
  [][(pc = "key" /\ HasItem /\ ev'.out = "refused")
       => StatFailed(Item)]_vars

\* C23: r with a destination that resolves to a file that is there leaves
\* that file's content as it was unless the user said y to an overwrite
\* question.
C23_RenameKeepsExisting ==
  [][(/\ pc = "key" /\ ev'.key = "rename" /\ ev'.fsops # << >>
      /\ KindOf(fs, ev'.fsops[1].dst) = "file"
      /\ ~SaidYes(ev'.answer))
       => fs'.nodes[ev'.fsops[1].dst] = fs.nodes[ev'.fsops[1].dst]]_vars

\* The record item is one a listing of the directory path makes: its path is
\* path joined with a name os.listdir can give, and its name is that name,
\* with or without the marker.
ListedIn(item, path) ==
  /\ item.path # Root
  /\ Basename(item.path) \in Names
  /\ item.path = path \o <<Basename(item.path)>>
  /\ item.name \in {Basename(item.path),
                     Basename(item.path) \o <<" ", "[?]">>}

\* C24: at the loop top and at every frame drawn, contents_cache is empty
\* or every record in it is one of a listing of current_path.
C24_ListOfCurrentPath ==
  pc \in {"top", "key", "small"}
    => \A i \in DOMAIN contents_cache :
         ListedIn(contents_cache[i], current_path)

\* C24, its case: a frame shows the entries of a directory below the start
\* directory after a file operation there.
C24_Witness ==
  /\ pc = "key"
  /\ current_path # Root
  /\ contents_cache # << >>
  /\ status_message \notin {MsgRefreshed, MsgEmpty}

====
